---- MODULE Spec2Model ----
(***************************************************************************)
(* execute-my-will: the safety gate between the text a language model      *)
(* returns and the operating-system shell.                                 *)
(*                                                                         *)
(*   - internal/ai/client.go        parseAIResponse, the retry wrapper     *)
(*   - internal/system/validator.go Validator.ValidateIntent               *)
(*   - internal/system/analyzer_unix.go  EnvironmentValidator              *)
(*   - internal/cli/root.go         executeWill, the flow that joins them  *)
(*   - internal/system/analyzer_unix.go  Analyzer.AnalyzeSystem             *)
(*                                                                         *)
(* Go strings are TLA+ strings; the functions of package strings are       *)
(* operators over them, computed position by position as Go computes them. *)
(* The TLA+ lexer cannot hold the backtick character inside a string, so   *)
(* the backtick is written ^ throughout (BackTick); no text of the model   *)
(* uses ^ for anything else.                                               *)
(***************************************************************************)
EXTENDS Integers, Sequences, FiniteSets, TLC

VARIABLES
    command,    \* ValidateEnvironmentCommand: the argument
    cmdShape,   \* how the argument was put together: [pad, prefix, segs, seps]
    coreSeen,   \* detectEnvironmentCommand: the core command it extracted
    envErr,     \* ValidateEnvironmentCommand: the returned error (NoError: nil)
    cpc,        \* "idle" | "input" | "done": position of the classifier run
    raw,        \* parseAIResponse: the argument, the provider's text
    rawShape,   \* how the argument was put together
    parsed,     \* parseAIResponse: the returned AIResponse
    ppc,        \* "idle" | "input" | "done": position of the parser run
    pc,         \* executeWill: the statement it is about to run ("idle": no run)
    mode,       \* cfg.Mode once validated: "monarch" | "royal-heir"
    intent,     \* the user's intent, strings.Join(args, " ")
    fs,         \* the paths for which os.Stat succeeds
    intentErr,  \* the error ValidateIntent returned ("" for nil)
    statted,    \* the paths ValidateIntent handed to os.Stat, in order
    retry,      \* exponentialRetryForAiResponse: its locals and what it returned
    response,   \* the AIResponse GenerateResponse returned
    taskContent,
    isScript,
    userResponse, \* the line read from standard input
    log,        \* the calls made to the collaborators, in order
    execCalls,  \* the calls made to the executor, with their arguments
    result,     \* what executeWill returned: "running" | "nil" | "error", and why
    info,       \* AnalyzeSystem: the Info the probes fill in
    environ,    \* the process environment: SHELL, PATH and the rc files
    tasks,      \* AnalyzeSystem: the position of each goroutine
    dirs,       \* getAvailableCommands: the slice its range statement read
    apc         \* "idle" | "start" | "wait" | "done" | "panic": AnalyzeSystem's position

classifyVars == <<command, cmdShape, coreSeen, envErr, cpc>>

parseVars == <<raw, rawShape, parsed, ppc>>

flowVars == <<pc, mode, intent, fs, intentErr, statted, retry, response, taskContent, isScript,
              userResponse, log, execCalls, result>>

analyzeVars == <<info, environ, tasks, dirs, apc>>

vars == <<classifyVars, parseVars, flowVars, analyzeVars>>

-----------------------------------------------------------------------------
(* package strings *)

BackTick == "^"

WhiteSpace == {" ", "\t", "\n", "\r"}

UpperChars == {"A","B","C","D","E","F","G","H","I","J","K","L","M",
               "N","O","P","Q","R","S","T","U","V","W","X","Y","Z"}

DigitChars == {"0","1","2","3","4","5","6","7","8","9"}

At(s, i) == SubSeq(s, i, i)

LowerChar(c) ==
    CASE c = "A" -> "a" [] c = "B" -> "b" [] c = "C" -> "c" [] c = "D" -> "d"
      [] c = "E" -> "e" [] c = "F" -> "f" [] c = "G" -> "g" [] c = "H" -> "h"
      [] c = "I" -> "i" [] c = "J" -> "j" [] c = "K" -> "k" [] c = "L" -> "l"
      [] c = "M" -> "m" [] c = "N" -> "n" [] c = "O" -> "o" [] c = "P" -> "p"
      [] c = "Q" -> "q" [] c = "R" -> "r" [] c = "S" -> "s" [] c = "T" -> "t"
      [] c = "U" -> "u" [] c = "V" -> "v" [] c = "W" -> "w" [] c = "X" -> "x"
      [] c = "Y" -> "y" [] c = "Z" -> "z" [] OTHER -> c

RECURSIVE ToLower(_)
ToLower(s) ==
    IF s = "" THEN ""
    ELSE LowerChar(At(s, 1)) \o ToLower(SubSeq(s, 2, Len(s)))

HasPrefix(s, p) == Len(p) <= Len(s) /\ SubSeq(s, 1, Len(p)) = p

HasSuffix(s, p) == Len(p) <= Len(s) /\ SubSeq(s, Len(s) - Len(p) + 1, Len(s)) = p

TrimPrefix(s, p) == IF HasPrefix(s, p) THEN SubSeq(s, Len(p) + 1, Len(s)) ELSE s

\* The positions at which p occurs in s.
Occurrences(s, p) ==
    {i \in 1..(Len(s) - Len(p) + 1) : SubSeq(s, i, i + Len(p) - 1) = p}

Contains(s, p) == Occurrences(s, p) # {}

Min(S) == CHOOSE m \in S : \A n \in S : m <= n

Max(S) == CHOOSE m \in S : \A n \in S : m >= n

\* strings.Index, 1-based; 0 when p does not occur.
Index(s, p) == IF Contains(s, p) THEN Min(Occurrences(s, p)) ELSE 0

TrimSpace(s) ==
    LET keep == {i \in 1..Len(s) : At(s, i) \notin WhiteSpace}
    IN  IF keep = {} THEN "" ELSE SubSeq(s, Min(keep), Max(keep))

\* strings.Split for a non-empty separator: the pieces between the
\* non-overlapping occurrences of sep, found left to right.
RECURSIVE Split(_, _)
Split(s, sep) ==
    LET i == Index(s, sep)
    IN  IF i = 0 THEN <<s>>
        ELSE <<SubSeq(s, 1, i - 1)>> \o Split(SubSeq(s, i + Len(sep), Len(s)), sep)

\* A loop that stops at the first hit: its position, 0 when there is none.
FirstIndex(hits) == IF hits = {} THEN 0 ELSE Min(hits)

-----------------------------------------------------------------------------
(* EnvironmentValidator: internal/system/analyzer_unix.go *)

NoError == [Command |-> "", Reason |-> "", Explanation |-> ""]

prefixes == <<"sudo ", "sudo -E ", "sudo -i ", "nohup ">>

separators == <<" && ", " || ", " ; ", "; ">>

envKeywords == {"export", "source", ".", "cd", "alias", "unalias", "conda",
                "activate", "deactivate", "nvm", "rbenv", "pyenv", "set",
                "unset", "module", "ml"}

looksLikeEnvironmentCommand(cmd) ==
    \/ \E keyword \in envKeywords : HasPrefix(cmd, keyword \o " ") \/ cmd = keyword
    \/ /\ Contains(cmd, "=")
       /\ ~Contains(cmd, "==")
       /\ LET varName == TrimSpace(Split(cmd, "=")[1])
          IN  /\ Len(varName) > 0
              /\ (At(varName, 1) \in UpperChars \/ At(varName, 1) = "_")

installPatterns ==
    {"apt update", "apt upgrade", "apt install", "apt-get update",
     "apt-get upgrade", "apt-get install", "yum install", "yum update",
     "dnf install", "dnf update", "pacman -S", "pacman -Sy", "pacman -Syu",
     "brew install", "brew update", "brew upgrade", "pip install",
     "pip3 install", "npm install", "npm update", "gem install",
     "cargo install", "go install", "snap install"}

installWithFlagsPatterns ==
    {"apt install -", "apt-get install -", "yum install -", "dnf install -",
     "brew install -"}

isInstallCommand(cmd) ==
    LET cleanCmd == TrimSpace(TrimPrefix(cmd, "sudo "))
    IN  \/ \E pattern \in installPatterns : HasPrefix(cleanCmd, pattern)
        \/ \E pattern \in installWithFlagsPatterns : HasPrefix(cleanCmd, pattern)

\* The loop over the parts of a chain: the first part that looks like an
\* environment command is returned at once; otherwise the first part that is
\* no install command, or "" when every part is one.
chainCore(parts) ==
    LET trimmed == [i \in 1..Len(parts) |-> TrimSpace(parts[i])]
        IsEnv(i) == trimmed[i] # "" /\ looksLikeEnvironmentCommand(trimmed[i])
        NonInstall(i) == trimmed[i] # "" /\ ~isInstallCommand(trimmed[i])
        envs == {i \in 1..Len(parts) : IsEnv(i)}
        others == {i \in 1..Len(parts) : NonInstall(i)}
    IN  IF envs # {} THEN [found |-> TRUE, core |-> trimmed[Min(envs)]]
        ELSE IF others # {} THEN [found |-> FALSE, core |-> trimmed[Min(others)]]
        ELSE [found |-> FALSE, core |-> ""]

stripPrefix(cmd) ==
    LET hit == FirstIndex({i \in 1..Len(prefixes) : HasPrefix(cmd, prefixes[i])})
    IN  IF hit = 0 THEN cmd ELSE TrimPrefix(cmd, prefixes[hit])

extractCoreCommand(cmd) ==
    LET stripped == stripPrefix(cmd)
        hit == FirstIndex({i \in 1..Len(separators) :
                              Contains(stripped, separators[i])})
    IN  IF hit = 0 THEN TrimSpace(stripped)
        ELSE LET r == chainCore(Split(stripped, separators[hit]))
             IN  IF r.found THEN r.core
                 ELSE IF r.core # "" THEN TrimSpace(r.core)
                 ELSE TrimSpace(stripped)

sourceablePatterns ==
    {".bashrc", ".zshrc", ".profile", ".bash_profile", ".env", ".envrc",
     "activate", ".sh", ".bash", ".zsh"}

looksLikeSourceableFile(name) ==
    LET filename == ToLower(name)
    IN  \/ \E pattern \in sourceablePatterns : Contains(filename, pattern)
        \/ /\ Contains(filename, "env")
           /\ \/ HasSuffix(filename, ".txt")
              \/ HasSuffix(filename, ".conf")
              \/ ~Contains(filename, ".")

detectSourceCommand(coreCmd, fullCmd) ==
    \E pattern \in {"source ", ". "} :
        /\ HasPrefix(coreCmd, pattern)
        /\ looksLikeSourceableFile(TrimSpace(TrimPrefix(coreCmd, pattern)))

\* The pattern matched without regard to letter case: ^[A-Za-z_][A-Za-z0-9_]*=
varAssignPatternAnyCase(s) ==
    LET Letter(c) == \E u \in UpperChars : LowerChar(u) = LowerChar(c)
    IN  \E k \in 1..(Len(s) - 1) :
            /\ Letter(At(s, 1)) \/ At(s, 1) = "_"
            /\ \A i \in 2..k :
                  Letter(At(s, i)) \/ At(s, i) \in DigitChars \cup {"_"}
            /\ At(s, k + 1) = "="

\* regexp ^[A-Z_][A-Z0-9_]*=
varAssignPattern(s) ==
    \E k \in 1..(Len(s) - 1) :
        /\ At(s, 1) \in UpperChars \cup {"_"}
        /\ \A i \in 2..k : At(s, i) \in UpperChars \cup DigitChars \cup {"_"}
        /\ At(s, k + 1) = "="

detectExportCommand(coreCmd, fullCmd) ==
    \/ HasPrefix(coreCmd, "export ")
    \/ varAssignPattern(TrimSpace(fullCmd))
    \/ \E pattern \in {"path=", "PATH=", "$path", "$PATH"} : Contains(fullCmd, pattern)

detectAliasCommand(coreCmd, fullCmd) ==
    HasPrefix(coreCmd, "alias ") \/ HasPrefix(coreCmd, "unalias ")

detectCdCommand(coreCmd, fullCmd) ==
    \/ HasPrefix(coreCmd, "cd ") \/ coreCmd = "cd"
    \/ HasPrefix(coreCmd, "pushd ") \/ HasPrefix(coreCmd, "popd")

venvPatterns ==
    {"activate", "deactivate", "workon ", "mkvirtualenv ", "rmvirtualenv ",
     "virtualenv", "python -m venv", "python3 -m venv", "poetry shell",
     "poetry env", "pipenv shell", "pipenv activate"}

detectVirtualEnvCommand(coreCmd, fullCmd) ==
    \/ \E pattern \in venvPatterns :
          HasPrefix(coreCmd, pattern) \/ Contains(coreCmd, pattern)
    \/ Contains(fullCmd, "bin/activate")
    \/ Contains(fullCmd, "Scripts/activate")

detectShellFunctionCommand(coreCmd, fullCmd) ==
    \/ \E pattern \in {"function ", "() {"} : Contains(fullCmd, pattern)
    \/ HasPrefix(coreCmd, "unset ")

detectEnvironmentModuleCommand(coreCmd, fullCmd) ==
    \E pattern \in {"module load", "module unload", "module purge",
                    "module swap", "ml "} : HasPrefix(coreCmd, pattern)

pathModPatterns ==
    {">> ~/.bashrc", ">> ~/.zshrc", ">> ~/.profile", ">> ~/.bash_profile",
     ">> $HOME/.bashrc", ">> $HOME/.zshrc"}

detectPathModification(coreCmd, fullCmd) ==
    /\ \E pattern \in pathModPatterns : Contains(fullCmd, pattern)
    /\ (Contains(fullCmd, "PATH") \/ Contains(fullCmd, "export"))

detectShellOptions(coreCmd, fullCmd) ==
    \E pattern \in {"set -", "set +", "shopt -s", "shopt -u", "setopt",
                    "unsetopt", "ulimit", "umask"} : HasPrefix(coreCmd, pattern)

detectCondaEnvironment(coreCmd, fullCmd) ==
    \E pattern \in {"conda activate", "conda deactivate", "conda env",
                    "mamba activate", "mamba deactivate"} : HasPrefix(coreCmd, pattern)

detectDockerEnvironment(coreCmd, fullCmd) ==
    \E pattern \in {"eval $(docker-machine env", "docker-machine env",
                    "$(aws ecr get-login", "eval $(aws ecr get-login"} :
        Contains(fullCmd, pattern)

versionMgrPatterns ==
    {"rbenv shell", "rbenv local", "rbenv global", "pyenv shell", "pyenv local",
     "pyenv global", "nvm use", "nvm alias", "nodenv shell", "nodenv local",
     "nodenv global", "jenv shell", "jenv local", "jenv global", "tfenv use"}

detectVersionManagers(coreCmd, fullCmd) ==
    \E pattern \in versionMgrPatterns : HasPrefix(coreCmd, pattern)

\* The detector each entry of checks names.
detector(name, coreCmd, fullCmd) ==
    CASE name = "path_modification"  -> detectPathModification(coreCmd, fullCmd)
      [] name = "conda_env"          -> detectCondaEnvironment(coreCmd, fullCmd)
      [] name = "source"             -> detectSourceCommand(coreCmd, fullCmd)
      [] name = "export"             -> detectExportCommand(coreCmd, fullCmd)
      [] name = "alias"              -> detectAliasCommand(coreCmd, fullCmd)
      [] name = "cd"                 -> detectCdCommand(coreCmd, fullCmd)
      [] name = "virtual_env"        -> detectVirtualEnvCommand(coreCmd, fullCmd)
      [] name = "shell_function"     -> detectShellFunctionCommand(coreCmd, fullCmd)
      [] name = "environment_module" -> detectEnvironmentModuleCommand(coreCmd, fullCmd)
      [] name = "shell_options"      -> detectShellOptions(coreCmd, fullCmd)
      [] name = "docker_env"         -> detectDockerEnvironment(coreCmd, fullCmd)
      [] name = "rbenv_pyenv"        -> detectVersionManagers(coreCmd, fullCmd)

\* checks with export tried before path_modification.
checksExportFirst ==
    <<"export", "path_modification", "conda_env", "source", "alias", "cd",
      "virtual_env", "shell_function", "environment_module", "shell_options",
      "docker_env", "rbenv_pyenv">>

checks ==
    <<"path_modification", "conda_env", "source", "export", "alias", "cd",
      "virtual_env", "shell_function", "environment_module", "shell_options",
      "docker_env", "rbenv_pyenv">>

detectEnvironmentCommand(cmd) ==
    LET lowerCmd == ToLower(cmd)
        coreCmd == extractCoreCommand(lowerCmd)
        hit == FirstIndex({i \in 1..Len(checks) : detector(checks[i], coreCmd, cmd)})
    IN  IF hit = 0 THEN "" ELSE checks[hit]

\* ValidateEnvironmentCommand reporting the cleaned command, not the original.
ValidateEnvironmentCommandCleaned(cmd) ==
    LET cleanCmd == TrimSpace(cmd)
        envCmd == IF cleanCmd = "" THEN "" ELSE detectEnvironmentCommand(cleanCmd)
    IN  IF envCmd = "" THEN NoError
        ELSE [Command |-> cleanCmd, Reason |-> envCmd,
              Explanation |-> "this application cannot modify your terminal session"]

ValidateEnvironmentCommand(cmd) ==
    LET cleanCmd == TrimSpace(cmd)
        envCmd == IF cleanCmd = "" THEN "" ELSE detectEnvironmentCommand(cleanCmd)
    IN  IF envCmd = "" THEN NoError
        ELSE [Command |-> cmd, Reason |-> envCmd,
              Explanation |-> "this application cannot modify your terminal session"]

GetKnightlyMessage(e) ==
    "I cannot change the realm's environment for you, sire, as " \o e.Explanation
    \o ".\nHowever, here is the command you should execute in your own noble shell:\n\n    "
    \o e.Command
    \o "\nExecute this command directly in your terminal to affect your current environment."

-----------------------------------------------------------------------------------------------------------------------------------------------------
(* parseAIResponse: internal/ai/client.go, internal/ai/types.go *)

ResponseTypeCommand == 0

ResponseTypeScript == 1

ResponseTypeFailure == 2

\* The zero AIResponse.
NoResponse == [Type |-> ResponseTypeCommand, Content |-> "", Error |-> ""]

Fence == BackTick \o BackTick \o BackTick

fenceTags == {"bash", "sh", "cmd", "bat", "powershell", "ps1"}

\* regexp (?s)```(?:bash|sh|cmd|bat|powershell|ps1)?\n(.*?)``` : the leftmost
\* position where three backticks, an optional tag of the list and a newline
\* are followed, at any distance, by three backticks again; the submatch is
\* the text up to the nearest such closing.
fenceOpeners == {Fence \o tag \o "\n" : tag \in fenceTags \cup {""}}

\* FindStringSubmatch with a greedy (.*): the submatch runs to the last closing.
FindStringSubmatchGreedy(s) ==
    LET closings == Occurrences(s, Fence)
        OpenerAt(i) == {o \in fenceOpeners :
                          /\ i + Len(o) - 1 <= Len(s)
                          /\ SubSeq(s, i, i + Len(o) - 1) = o
                          /\ \E j \in closings : j >= i + Len(o)}
        starts == {i \in 1..Len(s) : OpenerAt(i) # {}}
    IN  IF starts = {} THEN [matched |-> FALSE, group |-> ""]
        ELSE LET i == Min(starts)
                 o == CHOOSE x \in OpenerAt(i) : TRUE
                 from == i + Len(o)
                 j == Max({k \in closings : k >= from})
             IN  [matched |-> TRUE, group |-> SubSeq(s, from, j - 1)]

FindStringSubmatch(s) ==
    LET closings == Occurrences(s, Fence)
        OpenerAt(i) == {o \in fenceOpeners :
                          /\ i + Len(o) - 1 <= Len(s)
                          /\ SubSeq(s, i, i + Len(o) - 1) = o
                          /\ \E j \in closings : j >= i + Len(o)}
        starts == {i \in 1..Len(s) : OpenerAt(i) # {}}
    IN  IF starts = {} THEN [matched |-> FALSE, group |-> ""]
        ELSE LET i == Min(starts)
                 o == CHOOSE x \in OpenerAt(i) : TRUE
                 from == i + Len(o)
                 j == Min({k \in closings : k >= from})
             IN  [matched |-> TRUE, group |-> SubSeq(s, from, j - 1)]

\* parseAIResponse without the TrimSpace of what follows the prefix.
parseAIResponseUntrimmed(text) ==
    LET trimmed == TrimSpace(text)
    IN  IF HasPrefix(trimmed, "COMMAND:")
        THEN [Type |-> ResponseTypeCommand,
              Content |-> TrimPrefix(trimmed, "COMMAND:"), Error |-> ""]
        ELSE IF HasPrefix(trimmed, "SCRIPT:")
        THEN LET scriptContent == TrimPrefix(trimmed, "SCRIPT:")
                 matches == FindStringSubmatch(scriptContent)
             IN  [Type |-> ResponseTypeScript,
                  Content |-> IF matches.matched THEN matches.group
                              ELSE scriptContent,
                  Error |-> ""]
        ELSE IF HasPrefix(trimmed, "FAILURE:")
        THEN [Type |-> ResponseTypeFailure, Content |-> "",
              Error |-> TrimPrefix(trimmed, "FAILURE:")]
        ELSE [Type |-> ResponseTypeCommand, Content |-> trimmed, Error |-> ""]

\* parseAIResponse matching the three prefixes in any letter case.
parseAIResponseAnyCase(text) ==
    LET trimmed == TrimSpace(text)
        head(p) == HasPrefix(ToLower(trimmed), ToLower(p))
        rest(p) == SubSeq(trimmed, Len(p) + 1, Len(trimmed))
    IN  IF head("COMMAND:")
        THEN [Type |-> ResponseTypeCommand,
              Content |-> TrimSpace(rest("COMMAND:")), Error |-> ""]
        ELSE IF head("SCRIPT:")
        THEN LET scriptContent == TrimSpace(rest("SCRIPT:"))
                 matches == FindStringSubmatch(scriptContent)
             IN  [Type |-> ResponseTypeScript,
                  Content |-> IF matches.matched THEN TrimSpace(matches.group)
                              ELSE scriptContent,
                  Error |-> ""]
        ELSE IF head("FAILURE:")
        THEN [Type |-> ResponseTypeFailure, Content |-> "",
              Error |-> TrimSpace(rest("FAILURE:"))]
        ELSE [Type |-> ResponseTypeCommand, Content |-> trimmed, Error |-> ""]

parseAIResponse(text) ==
    LET trimmed == TrimSpace(text)
    IN  IF HasPrefix(trimmed, "COMMAND:")
        THEN [Type |-> ResponseTypeCommand,
              Content |-> TrimSpace(TrimPrefix(trimmed, "COMMAND:")), Error |-> ""]
        ELSE IF HasPrefix(trimmed, "SCRIPT:")
        THEN LET scriptContent == TrimSpace(TrimPrefix(trimmed, "SCRIPT:"))
                 matches == FindStringSubmatch(scriptContent)
             IN  [Type |-> ResponseTypeScript,
                  Content |-> IF matches.matched THEN TrimSpace(matches.group)
                              ELSE scriptContent,
                  Error |-> ""]
        ELSE IF HasPrefix(trimmed, "FAILURE:")
        THEN [Type |-> ResponseTypeFailure, Content |-> "",
              Error |-> TrimSpace(TrimPrefix(trimmed, "FAILURE:"))]
        ELSE [Type |-> ResponseTypeCommand, Content |-> trimmed, Error |-> ""]

-----------------------------------------------------------------------------
(* Validator: internal/system/validator.go *)

HomeDir == "/home/u"

directoryKeywords ==
    {"move", "copy", "list", "cd", "navigate", "directory", "folder", "file"}

knownDirectories == {"home", "current", "present", "here", "pwd", "~", ".", "..", "/"}

commonWords ==
    {"the", "to", "from", "in", "at", "of", "for", "with", "by", "a", "an",
     "and", "or", "but"}

\* strings.Fields: the maximal runs of characters that are not white space.
RECURSIVE Fields(_)
Fields(s) ==
    LET starts == {i \in 1..Len(s) : At(s, i) \notin WhiteSpace}
    IN  IF starts = {} THEN <<>>
        ELSE LET first == Min(starts)
                 ends == {j \in first..Len(s) : At(s, j) \in WhiteSpace}
             IN  IF ends = {} THEN <<SubSeq(s, first, Len(s))>>
                 ELSE <<SubSeq(s, first, Min(ends) - 1)>>
                      \o Fields(SubSeq(s, Min(ends), Len(s)))

\* filepath.Clean on paths without . and .. elements: one slash between
\* elements, none at the end.
RECURSIVE Clean(_)
Clean(path) ==
    LET i == Index(path, "//")
    IN  IF i # 0 THEN Clean(SubSeq(path, 1, i) \o SubSeq(path, i + 2, Len(path)))
        ELSE IF Len(path) > 1 /\ HasSuffix(path, "/")
        THEN Clean(SubSeq(path, 1, Len(path) - 1))
        ELSE path

\* filepath.Join of two elements; an empty element is ignored.
Join(a, b) == IF b = "" THEN Clean(a) ELSE Clean(a \o "/" \o b)

\* containsDirectoryOperation taking a path-like token for an operation too.
containsDirectoryOperationOrPath(text) ==
    \/ \E keyword \in directoryKeywords : Contains(ToLower(text), keyword)
    \/ Contains(text, "/")
    \/ Contains(text, "\\")

containsDirectoryOperation(text) ==
    \E keyword \in directoryKeywords : Contains(ToLower(text), keyword)

isKnownDirectory(word) == ToLower(word) \in knownDirectories

isCommonWord(word) == ToLower(word) \in commonWords

\* The path handed to os.Stat, without the expansion of ~.
statPathLiteral(path) == path

\* The path handed to os.Stat: a leading ~ is replaced by the home directory.
statPath(path) ==
    IF HasPrefix(path, "~")
    THEN Join(HomeDir, SubSeq(path, 2, Len(path)))
    ELSE path

pathExists(path, files) == Clean(statPath(path)) \in files

\* The error without the word it is about.
directoryErrorUnnamed(word) ==
    "a directory does not exist in your realm. Please specify an existing path or use specific directory names"

directoryError(word) ==
    "the directory '" \o word
    \o "' does not exist in your realm. Please specify an existing path or use specific directory names"

\* The validator's result: the error text ("" for nil) and the paths it
\* handed to os.Stat, in order.
NoFinding == [err |-> "", stats |-> <<>>]

\* The loop over the words, taking every word that is no common word for a
\* path.
RECURSIVE checkWordsEveryWord(_, _)
checkWordsEveryWord(words, files) ==
    IF words = <<>> THEN NoFinding
    ELSE LET word == Head(words)
         IN  IF isCommonWord(word)
             THEN checkWordsEveryWord(Tail(words), files)
             ELSE IF ~pathExists(word, files)
             THEN [err |-> directoryError(word), stats |-> <<statPath(word)>>]
             ELSE LET r == checkWordsEveryWord(Tail(words), files)
                  IN  [r EXCEPT !.stats = <<statPath(word)>> \o @]

\* The loop over the words: known directories and common words are skipped,
\* a word with a slash or a backslash is tested, and the first that does not
\* exist ends the loop with its error.
RECURSIVE checkWords(_, _)
checkWords(words, files) ==
    IF words = <<>> THEN NoFinding
    ELSE LET word == Head(words)
         IN  IF isKnownDirectory(word) \/ isCommonWord(word)
             THEN checkWords(Tail(words), files)
             ELSE IF Contains(word, "/") \/ Contains(word, "\\")
             THEN IF ~pathExists(word, files)
                  THEN [err |-> directoryError(word), stats |-> <<statPath(word)>>]
                  ELSE LET r == checkWords(Tail(words), files)
                       IN  [r EXCEPT !.stats = <<statPath(word)>> \o @]
             ELSE checkWords(Tail(words), files)

validateDirectoryReferences(text, files) == checkWords(Fields(text), files)

ValidateIntent(text, files) ==
    IF containsDirectoryOperation(text)
    THEN validateDirectoryReferences(text, files)
    ELSE NoFinding

-----------------------------------------------------------------------------
(* executeWill: internal/cli/root.go; the retry wrapper and the client calls *)
(* it makes: internal/ai/client.go                                           *)

maxGenerateRetries == 5

maxExplainRetries == 3

initialDelay == 1

delayCap == 10

Shell == "bash"

\* What the wrapper returns; returned is FALSE while it runs.
NoOut == [returned |-> FALSE, resp |-> "", err |-> ""]

\* The locals of exponentialRetryForAiResponse: i, maxRetries, delay, resp and
\* err ("" for nil), in seconds; initial is the delay as passed in, slept are
\* the durations handed to time.Sleep so far, out is the pair returned.
NoRetry == [i |-> 0, maxRetries |-> 0, delay |-> 0, initial |-> 0, resp |-> "",
            err |-> "", slept |-> <<>>, out |-> NoOut]

StartRetry(maxRetries, delay) ==
    [NoRetry EXCEPT !.maxRetries = maxRetries, !.delay = delay, !.initial = delay]

\* The errors a provider call returns, the explanations it gives.
ProviderErrors == {"timeout", "rate limit exceeded"}

Explanations == {"Lists the files of the directory."}

\* The wrapper's error without the attempt count.
retryErrorBare(maxRetries, err) == err

\* fmt.Errorf("failed to get response after %d attempts: %v", maxRetries, err)
retryError(maxRetries, err) ==
    "failed to get response after " \o ToString(maxRetries) \o " attempts: " \o err

Running == [ret |-> "running", why |-> ""]

Return(ret, why) == [ret |-> ret, why |-> why]

\* userResponse = "y" or "yes" after TrimSpace(ToLower(.)).
confirmedByPrefix(line) == HasPrefix(TrimSpace(ToLower(line)), "y")

confirmed(line) ==
    LET answer == TrimSpace(ToLower(line))
    IN  answer = "y" \/ answer = "yes"

Intents ==
    {"list files in /tmp/data", "copy ~/notes to /backup", "show disk usage",
     "go to the home directory", "restart nginx using /etc/missing.conf"}

FileSystems == {{}, {"/tmp/data"}, {"/tmp/data", "/home/u/notes", "/backup"}}

RawResponses ==
    {"COMMAND: ls -la", "COMMAND:  cd /tmp ", "COMMAND: source ~/.bashrc",
     "COMMAND: sudo apt install curl",
     "SCRIPT:\n" \o Fence \o "bash\n# enter\ncd /tmp\nls\n" \o Fence,
     "SCRIPT: export FOO=bar",
     "FAILURE: Intent too complex for a single shell command.",
     "ls -la", ""}

Answers ==
    {"y\n", "Y\n", "yes\n", " YES \n", "n\n", "\n", "no\n", "yess\n", "yes please\n"}

\* The classifier and the parser when no run of theirs is modelled.
ClassifyIdle ==
    /\ command = ""
    /\ cmdShape = [pad |-> "", prefix |-> "", segs |-> <<"">>, seps |-> <<>>]
    /\ coreSeen = ""
    /\ envErr = NoError
    /\ cpc = "idle"

ParseIdle ==
    /\ raw = ""
    /\ rawShape = [lead |-> "", head |-> "", text |-> "", trail |-> "",
                   fenced |-> FALSE, pre |-> "", tag |-> "", inner |-> "", post |-> ""]
    /\ parsed = NoResponse
    /\ ppc = "idle"

FlowIdle ==
    /\ pc = "idle"
    /\ mode = "monarch"
    /\ intent = ""
    /\ fs = {}
    /\ intentErr = ""
    /\ statted = <<>>
    /\ retry = NoRetry
    /\ response = NoResponse
    /\ taskContent = ""
    /\ isScript = FALSE
    /\ userResponse = ""
    /\ log = <<>>
    /\ execCalls = <<>>
    /\ result = Running

\* The Info AnalyzeSystem starts from: every field zero, the map made.
NoInfo ==
    [OS |-> "", Shell |-> "", PackageManager |-> "", CurrentDir |-> "", HomeDir |-> "",
     PathDirectories |-> <<>>, AvailableCommands |-> {}, Aliases |-> <<>>]

AnalyzeIdle ==
    /\ info = NoInfo
    /\ environ = [SHELL |-> "", PATH |-> "", rc |-> <<>>]
    /\ tasks = <<>>
    /\ dirs = <<>>
    /\ apc = "idle"

FlowInit ==
    /\ pc = "start"
    /\ mode \in {"monarch", "royal-heir"}
    /\ intent \in Intents
    /\ fs \in FileSystems
    /\ intentErr = ""
    /\ statted = <<>>
    /\ retry = NoRetry
    /\ response = NoResponse
    /\ taskContent = ""
    /\ isScript = FALSE
    /\ userResponse = ""
    /\ log = <<>>
    /\ execCalls = <<>>
    /\ result = Running

\* Lines 64-117: the version flag, the missing argument, the configuration
\* and the system analysis; each can end the run before the intent is read.
Start ==
    /\ pc = "start"
    /\ \E way \in {"version", "no intent", "configuration not found",
                   "failed to load configuration", "configuration error",
                   "failed to analyze", "go on"} :
          IF way = "go on"
          THEN /\ pc' = "validate"
               /\ UNCHANGED result
          ELSE /\ pc' = "done"
               /\ result' = Return(IF way \in {"version", "no intent",
                                               "configuration not found"}
                                   THEN "nil" ELSE "error", way)
    /\ UNCHANGED <<mode, intent, fs, intentErr, statted, retry, response, taskContent, isScript,
                   userResponse, log, execCalls, classifyVars, parseVars, analyzeVars>>

\* Validate going on after a rejected intent.
ValidateWarnsOnly ==
    /\ pc = "validate"
    /\ log' = Append(log, "ValidateIntent")
    /\ LET err == ValidateIntent(intent, fs)
       IN  /\ intentErr' = err.err
           /\ statted' = err.stats
    /\ pc' = "newclient"
    /\ UNCHANGED <<mode, intent, fs, retry, response, taskContent, isScript,
                   userResponse, execCalls, result, classifyVars, parseVars, analyzeVars>>

\* Lines 119-124.
Validate ==
    /\ pc = "validate"
    /\ log' = Append(log, "ValidateIntent")
    /\ LET err == ValidateIntent(intent, fs)
       IN  /\ intentErr' = err.err
           /\ statted' = err.stats
           /\ IF err.err # ""
              THEN /\ pc' = "done"
                   /\ result' = Return("nil", "clarification needed")
              ELSE /\ pc' = "newclient"
                   /\ UNCHANGED result
    /\ UNCHANGED <<mode, intent, fs, retry, response, taskContent, isScript,
                   userResponse, execCalls, classifyVars, parseVars, analyzeVars>>

\* Lines 126-130, and the start of GenerateResponse's retry loop.
NewClient ==
    /\ pc = "newclient"
    /\ log' = Append(log, "NewClient")
    /\ \E ok \in BOOLEAN :
          IF ok
          THEN /\ pc' = "generate"
               /\ retry' = StartRetry(maxGenerateRetries, initialDelay)
               /\ UNCHANGED result
          ELSE /\ pc' = "done"
               /\ result' = Return("error", "failed to summon the oracle")
               /\ UNCHANGED retry
    /\ UNCHANGED <<mode, intent, fs, intentErr, statted, response, taskContent, isScript,
                   userResponse, execCalls, classifyVars, parseVars, analyzeVars>>

\* One pass of the retry loop up to the call: fn(prompt) succeeds, and the
\* wrapper returns its text, or fails. GenerateResponse parses the text
\* returned; ExplainCommand returns it.
CallProvider ==
    /\ pc \in {"generate", "explain"}
    /\ log' = Append(log, IF pc = "generate" THEN "GenerateResponse"
                                              ELSE "ExplainCommand")
    /\ \/ /\ pc = "generate"
          /\ \E text \in RawResponses :
                /\ retry' = [retry EXCEPT !.resp = text, !.err = "",
                                          !.out = [returned |-> TRUE, resp |-> text,
                                                   err |-> ""]]
                /\ response' = parseAIResponse(text)
          /\ pc' = "dispatch"
       \/ /\ pc = "explain"
          /\ \E text \in Explanations :
                retry' = [retry EXCEPT !.resp = text, !.err = "",
                                       !.out = [returned |-> TRUE, resp |-> text,
                                                err |-> ""]]
          /\ pc' = "envcheck"
          /\ UNCHANGED response
       \/ /\ \E e \in ProviderErrors : retry' = [retry EXCEPT !.resp = "", !.err = e]
          /\ pc' = IF pc = "generate" THEN "generate sleep" ELSE "explain sleep"
          /\ UNCHANGED response
    /\ UNCHANGED <<mode, intent, fs, intentErr, statted, taskContent, isScript,
                   userResponse, execCalls, result, classifyVars, parseVars, analyzeVars>>

\* RetrySleep with executeWill returning ExplainCommand's error as well.
RetrySleepExplainAborts ==
    /\ pc \in {"generate sleep", "explain sleep"}
    /\ log' = Append(log, "Sleep")
    /\ LET exhausted == ~(retry.i + 1 < retry.maxRetries)
           next == [retry EXCEPT !.i = @ + 1,
                                 !.slept = Append(@, retry.delay),
                                 !.delay = IF 2 * @ > delayCap THEN delayCap ELSE 2 * @]
       IN  /\ retry' = IF exhausted
                       THEN [next EXCEPT !.out =
                                [returned |-> TRUE, resp |-> "",
                                 err |-> retryError(retry.maxRetries, retry.err)]]
                       ELSE next
           /\ IF ~exhausted
              THEN /\ pc' = IF pc = "generate sleep" THEN "generate" ELSE "explain"
                   /\ UNCHANGED result
              ELSE /\ pc' = "done"
                   /\ result' = Return("error", "the oracles have failed us")
    /\ UNCHANGED <<mode, intent, fs, intentErr, statted, response, taskContent, isScript,
                   userResponse, execCalls, classifyVars, parseVars, analyzeVars>>

\* RetrySleep with the loop running while i <= maxRetries.
RetrySleepOneMore ==
    /\ pc \in {"generate sleep", "explain sleep"}
    /\ log' = Append(log, "Sleep")
    /\ LET exhausted == ~(retry.i + 1 <= retry.maxRetries)
           next == [retry EXCEPT !.i = @ + 1,
                                 !.slept = Append(@, retry.delay),
                                 !.delay = IF 2 * @ > delayCap THEN delayCap ELSE 2 * @]
       IN  /\ retry' = IF exhausted
                       THEN [next EXCEPT !.out =
                                [returned |-> TRUE, resp |-> "",
                                 err |-> retryError(retry.maxRetries, retry.err)]]
                       ELSE next
           /\ IF ~exhausted
              THEN /\ pc' = IF pc = "generate sleep" THEN "generate" ELSE "explain"
                   /\ UNCHANGED result
              ELSE IF pc = "generate sleep"
              THEN /\ pc' = "done"
                   /\ result' = Return("error", "the oracles have failed us")
              ELSE /\ pc' = "envcheck"
                   /\ UNCHANGED result
    /\ UNCHANGED <<mode, intent, fs, intentErr, statted, response, taskContent, isScript,
                   userResponse, execCalls, classifyVars, parseVars, analyzeVars>>

\* The rest of the pass after a failed call: sleep for the current delay,
\* double the delay up to the cap, count the attempt; after the last attempt
\* the wrapper returns "" and its error. executeWill returns
\* GenerateResponse's error and goes on after ExplainCommand's.
RetrySleep ==
    /\ pc \in {"generate sleep", "explain sleep"}
    /\ log' = Append(log, "Sleep")
    /\ LET exhausted == ~(retry.i + 1 < retry.maxRetries)
           next == [retry EXCEPT !.i = @ + 1,
                                 !.slept = Append(@, retry.delay),
                                 !.delay = IF 2 * @ > delayCap THEN delayCap ELSE 2 * @]
       IN  /\ retry' = IF exhausted
                       THEN [next EXCEPT !.out =
                                [returned |-> TRUE, resp |-> "",
                                 err |-> retryError(retry.maxRetries, retry.err)]]
                       ELSE next
           /\ IF ~exhausted
              THEN /\ pc' = IF pc = "generate sleep" THEN "generate" ELSE "explain"
                   /\ UNCHANGED result
              ELSE IF pc = "generate sleep"
              THEN /\ pc' = "done"
                   /\ result' = Return("error", "the oracles have failed us")
              ELSE /\ pc' = "envcheck"
                   /\ UNCHANGED result
    /\ UNCHANGED <<mode, intent, fs, intentErr, statted, response, taskContent, isScript,
                   userResponse, execCalls, classifyVars, parseVars, analyzeVars>>

\* Dispatch sending a script to the environment check as well.
DispatchScriptChecked ==
    /\ pc = "dispatch"
    /\ CASE response.Type = ResponseTypeFailure ->
              /\ pc' = "done"
              /\ result' = Return("nil", "quest cannot be completed")
              /\ UNCHANGED <<taskContent, isScript, retry>>
         [] response.Type = ResponseTypeCommand ->
              /\ taskContent' = response.Content
              /\ isScript' = FALSE
              /\ IF mode = "royal-heir"
                 THEN /\ pc' = "explain"
                      /\ retry' = StartRetry(maxExplainRetries, initialDelay)
                 ELSE /\ pc' = "envcheck"
                      /\ UNCHANGED retry
              /\ UNCHANGED result
         [] response.Type = ResponseTypeScript ->
              /\ taskContent' = response.Content
              /\ isScript' = TRUE
              /\ pc' = "envcheck"
              /\ UNCHANGED <<result, retry>>
    /\ UNCHANGED <<mode, intent, fs, intentErr, statted, response, userResponse, log, execCalls,
                   classifyVars, parseVars, analyzeVars>>

\* Dispatch returning an error for a Failure response.
DispatchRefusalFails ==
    /\ pc = "dispatch"
    /\ CASE response.Type = ResponseTypeFailure ->
              /\ pc' = "done"
              /\ result' = Return("error", "quest cannot be completed")
              /\ UNCHANGED <<taskContent, isScript, retry>>
         [] response.Type = ResponseTypeCommand ->
              /\ taskContent' = response.Content
              /\ isScript' = FALSE
              /\ IF mode = "royal-heir"
                 THEN /\ pc' = "explain"
                      /\ retry' = StartRetry(maxExplainRetries, initialDelay)
                 ELSE /\ pc' = "envcheck"
                      /\ UNCHANGED retry
              /\ UNCHANGED result
         [] response.Type = ResponseTypeScript ->
              /\ taskContent' = response.Content
              /\ isScript' = TRUE
              /\ pc' = "confirm"
              /\ UNCHANGED <<result, retry>>
    /\ UNCHANGED <<mode, intent, fs, intentErr, statted, response, userResponse, log, execCalls,
                   classifyVars, parseVars, analyzeVars>>

\* Lines 142-161 and 174-211: the switch on the response type, up to the
\* explanation call of a command.
Dispatch ==
    /\ pc = "dispatch"
    /\ CASE response.Type = ResponseTypeFailure ->
              /\ pc' = "done"
              /\ result' = Return("nil", "quest cannot be completed")
              /\ UNCHANGED <<taskContent, isScript, retry>>
         [] response.Type = ResponseTypeCommand ->
              /\ taskContent' = response.Content
              /\ isScript' = FALSE
              /\ IF mode = "royal-heir"
                 THEN /\ pc' = "explain"
                      /\ retry' = StartRetry(maxExplainRetries, initialDelay)
                 ELSE /\ pc' = "envcheck"
                      /\ UNCHANGED retry
              /\ UNCHANGED result
         [] response.Type = ResponseTypeScript ->
              /\ taskContent' = response.Content
              /\ isScript' = TRUE
              /\ pc' = "confirm"
              /\ UNCHANGED <<result, retry>>
    /\ UNCHANGED <<mode, intent, fs, intentErr, statted, response, userResponse, log, execCalls,
                   classifyVars, parseVars, analyzeVars>>

\* EnvCheck without the return after the knightly message.
EnvCheckFallsThrough ==
    /\ pc = "envcheck"
    /\ log' = Append(log, "ValidateEnvironmentCommand")
    /\ pc' = "confirm"
    /\ UNCHANGED <<mode, intent, fs, intentErr, statted, retry, response, taskContent, isScript,
                   userResponse, execCalls, result, classifyVars, parseVars, analyzeVars>>

\* Lines 163-172.
EnvCheck ==
    /\ pc = "envcheck"
    /\ log' = Append(log, "ValidateEnvironmentCommand")
    /\ IF ValidateEnvironmentCommand(response.Content) # NoError
       THEN /\ pc' = "done"
            /\ result' = Return("nil", "environment command")
       ELSE /\ pc' = "confirm"
            /\ UNCHANGED result
    /\ UNCHANGED <<mode, intent, fs, intentErr, statted, retry, response, taskContent, isScript,
                   userResponse, execCalls, classifyVars, parseVars, analyzeVars>>

\* Lines 213-230: the prompt, the line read and the decision.
Confirm ==
    /\ pc = "confirm"
    /\ log' = Append(log, "Prompt")
    /\ \/ /\ pc' = "done"
          /\ result' = Return("error", "failed to read your royal decree")
          /\ UNCHANGED userResponse
       \/ \E line \in Answers :
             /\ userResponse' = line
             /\ IF confirmed(line)
                THEN /\ pc' = "execute"
                     /\ UNCHANGED result
                ELSE /\ pc' = "done"
                     /\ result' = Return("nil", "quest declined")
    /\ UNCHANGED <<mode, intent, fs, intentErr, statted, retry, response, taskContent, isScript,
                   execCalls, classifyVars, parseVars, analyzeVars>>

\* ExecuteTask showing the comments of a script in every mode.
ExecuteTaskAlwaysComments ==
    /\ pc = "execute"
    /\ log' = Append(log, IF isScript THEN "ExecuteScript" ELSE "Execute")
    /\ execCalls' = Append(execCalls,
                           [script |-> isScript, content |-> taskContent,
                            shell |-> Shell, showComments |-> isScript])
    /\ pc' = "done"
    /\ \E execErr \in BOOLEAN :
          result' = Return("nil", IF execErr THEN "quest difficulties"
                                              ELSE "quest completed")
    /\ UNCHANGED <<mode, intent, fs, intentErr, statted, retry, response, taskContent, isScript,
                   userResponse, classifyVars, parseVars, analyzeVars>>

\* Lines 232-267: the executor call; its error is reported, not returned.
ExecuteTask ==
    /\ pc = "execute"
    /\ log' = Append(log, IF isScript THEN "ExecuteScript" ELSE "Execute")
    /\ execCalls' = Append(execCalls,
                           [script |-> isScript, content |-> taskContent,
                            shell |-> Shell,
                            showComments |-> isScript /\ mode = "royal-heir"])
    /\ pc' = "done"
    /\ \E execErr \in BOOLEAN :
          result' = Return("nil", IF execErr THEN "quest difficulties"
                                              ELSE "quest completed")
    /\ UNCHANGED <<mode, intent, fs, intentErr, statted, retry, response, taskContent, isScript,
                   userResponse, classifyVars, parseVars, analyzeVars>>

Init == FlowInit /\ ClassifyIdle /\ ParseIdle /\ AnalyzeIdle

Next ==
    \/ Start
    \/ Validate
    \/ NewClient
    \/ CallProvider
    \/ RetrySleep
    \/ Dispatch
    \/ EnvCheck
    \/ Confirm
    \/ ExecuteTask

Spec == Init /\ [][Next]_vars

-----------------------------------------------------------------------------
(* Claims about executeWill *)

\* The positions in the log of the calls named.
Calls(names) == {i \in 1..Len(log) : log[i] \in names}

ExecutorCalls == Calls({"Execute", "ExecuteScript"})

ProviderCalls == Calls({"GenerateResponse", "ExplainCommand"})

\* GenerateResponse has returned a response and the switch on it has run.
Dispatched ==
    /\ pc \notin {"start", "validate", "newclient", "generate", "generate sleep",
                  "dispatch"}
    /\ \E i \in Calls({"GenerateResponse"}) : i = Len(log) \/ log[i + 1] # "Sleep"

\* C1: the executor is called only after the prompt was shown and the answer,
\* trimmed and lower-cased, was exactly y or yes; after any other answer the
\* run ends without an executor call.
C1_ExecutorOnlyAfterYes ==
    LET answer == TrimSpace(ToLower(userResponse))
    IN  /\ Len(execCalls) = Cardinality(ExecutorCalls)
        /\ \A i \in ExecutorCalls :
              /\ \E j \in Calls({"Prompt"}) : j < i
              /\ answer \in {"y", "yes"}
        /\ Calls({"Prompt"}) # {} /\ pc \notin {"confirm"} /\ answer \notin {"y", "yes"}
              => pc = "done" /\ ExecutorCalls = {}

\* The executor has run after the answer " YES ".
C1_Witness ==
    /\ pc = "done"
    /\ execCalls # <<>>
    /\ userResponse = " YES \n"

\* C2: after a Failure response, and after a Command response for which the
\* classifier returns a verdict, there is no prompt and no executor call, and
\* the run returns nil.
C2_RefusalAndBlockSkipExecution ==
    /\ Dispatched
    /\ \/ response.Type = ResponseTypeFailure
       \/ /\ response.Type = ResponseTypeCommand
          /\ ValidateEnvironmentCommand(response.Content) # NoError
    => /\ Calls({"Prompt"}) = {}
       /\ ExecutorCalls = {}
       /\ execCalls = <<>>
       /\ pc \in {"explain", "explain sleep", "envcheck", "done"}
       /\ pc = "done" => result.ret = "nil"

\* A blocked command has ended the run, in royal-heir mode, after the
\* explanation.
C2_Witness ==
    /\ pc = "done"
    /\ response.Type = ResponseTypeCommand
    /\ response.Content = "cd /tmp"
    /\ Calls({"ExplainCommand"}) # {}
    /\ result = Return("nil", "environment command")

-----------------------------------------------------------------------------
(* The classifier on its own: one command in, one verdict out. *)

MaxSegments == 3

MaxPad == 2

RECURSIVE Spaces(_)
Spaces(n) == IF n = 0 THEN "" ELSE " " \o Spaces(n - 1)

\* White space put around a command or a response.
Pads == {Spaces(n) : n \in 0..MaxPad}

Prefixes == {"", "sudo ", "sudo -E ", "sudo -i ", "nohup "}

Commands ==
    {"ls -la", "sudo apt-get install vim", "docker run -it ubuntu bash",
     "source ~/.bashrc", ". /etc/environment", "source venv/bin/activate",
     "source notes", "export FOO=bar", "JAVA_HOME=/usr/lib/jvm", "path=/x",
     "echo 'export PATH=$PATH:/x' >> ~/.bashrc", "conda activate myenv",
     "cd /tmp", "popd", "alias ll='ls -la'", "poetry shell",
     "pip install virtualenv", "unset JAVA_HOME", "function f() { echo hi; }",
     "module load gcc", "set -e", "eval $(docker-machine env default)",
     "nvm use 16", "apt install curl && source ~/.bashrc",
     "Which Python && export PYTHON_ENV=x", ""}

ChainSegments ==
    {"ls -la", "apt install curl", "pip install virtualenv", "cd /tmp",
     "source ~/.bashrc", "popd"}

ChainSeparators == {separators[i] : i \in 1..Len(separators)}

\* segs[1] seps[1] segs[2] ... seps[n-1] segs[n]
RECURSIVE JoinChain(_, _)
JoinChain(segs, seps) ==
    IF Len(segs) = 1 THEN segs[1]
    ELSE segs[1] \o seps[1] \o JoinChain(Tail(segs), Tail(seps))

ClassifyInit ==
    /\ ParseIdle
    /\ AnalyzeIdle
    /\ FlowIdle
    /\ \E pad \in Pads, prefix \in Prefixes, c \in Commands :
          /\ cmdShape = [pad |-> pad, prefix |-> prefix, segs |-> <<c>>, seps |-> <<>>]
          /\ command = pad \o prefix \o c \o pad
    /\ coreSeen = ""
    /\ envErr = NoError
    /\ cpc = "input"

ChainInit ==
    /\ ParseIdle
    /\ AnalyzeIdle
    /\ FlowIdle
    /\ \E n \in 1..MaxSegments :
          \E segs \in [1..n -> ChainSegments], seps \in [1..(n - 1) -> ChainSeparators] :
              /\ cmdShape = [pad |-> "", prefix |-> "", segs |-> segs, seps |-> seps]
              /\ command = JoinChain(segs, seps)
    /\ coreSeen = ""
    /\ envErr = NoError
    /\ cpc = "input"

Classify ==
    /\ cpc = "input"
    /\ coreSeen' = extractCoreCommand(ToLower(TrimSpace(command)))
    /\ envErr' = ValidateEnvironmentCommand(command)
    /\ cpc' = "done"
    /\ UNCHANGED <<command, cmdShape, parseVars, flowVars, analyzeVars>>

SpecClassify == ClassifyInit /\ [][Classify]_vars

SpecChain == ChainInit /\ [][Classify]_vars

-----------------------------------------------------------------------------
(* Claims about the classifier *)

\* The detector order the specification fixes, written out on its own.
PriorityOrder ==
    <<"path_modification", "conda_env", "source", "export", "alias", "cd",
      "virtual_env", "shell_function", "environment_module", "shell_options",
      "docker_env", "rbenv_pyenv">>

\* The positions in PriorityOrder of the detectors that match the command.
Matching ==
    {i \in 1..Len(PriorityOrder) :
        detector(PriorityOrder[i], coreSeen, TrimSpace(command))}

\* C4: the category returned for a command is that of the first detector, in
\* the order path_modification, conda_env, source, export, alias, cd,
\* virtual_env, shell_function, environment_module, shell_options, docker_env,
\* rbenv_pyenv, that matches it; when none matches there is no verdict.
C4_FirstMatchWins ==
    cpc = "done" =>
        IF Matching = {} THEN envErr = NoError
        ELSE envErr.Reason = PriorityOrder[Min(Matching)]

\* A command that both path_modification and export match has been classified.
C4_Witness ==
    /\ cpc = "done"
    /\ {1, 4} \subseteq Matching
    /\ envErr.Reason = "path_modification"

\* The segment the claim selects: the first that looks like an environment
\* command, else the first that is no installer, else the whole command.
ClaimedCore(segs, whole) ==
    LET envs == {i \in 1..Len(segs) : looksLikeEnvironmentCommand(segs[i])}
        others == {i \in 1..Len(segs) : ~isInstallCommand(segs[i])}
    IN  IF envs # {} THEN segs[Min(envs)]
        ELSE IF others # {} THEN segs[Min(others)]
        ELSE whole

\* C5: on a chain, core-command extraction splits at every separator present,
\* also when the chain mixes separators, and returns the first segment that
\* looks like an environment command, else the first that is no installer,
\* else the whole command.
C5_SplitsAtEverySeparator ==
    cpc = "done" /\ Len(cmdShape.segs) >= 2 =>
        coreSeen = ClaimedCore(cmdShape.segs, stripPrefix(command))

\* C6: a command with one of the prefixes sudo, sudo -E, sudo -i, nohup in
\* front gets the category of the command without it.
C6_PrefixStripped ==
    cpc = "done" /\ cmdShape.prefix # "" =>
        envErr.Reason =
            ValidateEnvironmentCommand(cmdShape.pad \o cmdShape.segs[1] \o cmdShape.pad).Reason

\* C7: a command made only of installer invocations, alone or chained, is
\* classified as safe.
C7_InstallersAreSafe ==
    cpc = "done" /\ (\A i \in 1..Len(cmdShape.segs) : isInstallCommand(cmdShape.segs[i]))
        => envErr = NoError

\* C8: a blocking verdict carries the matched category, a non-empty
\* explanation and the command exactly as it was passed in, and the knightly
\* message contains that command.
C8_VerdictCarriesOriginal ==
    cpc = "done" /\ envErr # NoError =>
        /\ envErr.Command = command
        /\ \E i \in Matching : envErr.Reason = PriorityOrder[i]
        /\ envErr.Explanation # ""
        /\ Contains(GetKnightlyMessage(envErr), command)

\* A blocked command that differs from its trimmed, lower-cased, stripped and
\* core forms.
C8_Witness ==
    /\ cpc = "done"
    /\ envErr # NoError
    /\ cmdShape.pad # ""
    /\ cmdShape.prefix = "sudo "
    /\ command # ToLower(command)
    /\ coreSeen # ToLower(TrimSpace(command))

-----------------------------------------------------------------------------
(* The parser on its own: one provider text in, one AIResponse out. *)

Leads == Pads \cup {"\n"}

Trails == {"", "  \n"}

Heads == {"COMMAND:", "SCRIPT:", "FAILURE:", "Command:", ""}

Texts ==
    {"", " ls -la", "   ls -la   ", "ls", " FAILURE: x", " SCRIPT: echo hi",
     " COMMAND: ls", "   Task too vague   ", "\techo hi\n\tls"}

ScriptPres == {"", "\n", " Here it is:\n"}

ScriptTags == {"", "bash", "sh", "powershell", "python", "zsh", "bash "}

ScriptInners == {"echo hi\nls\n", "  echo " \o BackTick \o "date" \o BackTick \o "\n\n", "a", "\n"}

SecondBlock == "\n" \o Fence \o "sh\nb\n" \o Fence

ScriptPosts == {"", "\nDone.", SecondBlock}

ParseInit ==
    /\ ClassifyIdle
    /\ FlowIdle
    /\ AnalyzeIdle
    /\ \E lead \in Leads, trail \in Trails :
          \/ \E head \in Heads, text \in Texts :
                /\ rawShape = [lead |-> lead, head |-> head, text |-> text,
                               trail |-> trail, fenced |-> FALSE, pre |-> "",
                               tag |-> "", inner |-> "", post |-> ""]
                /\ raw = lead \o head \o text \o trail
          \/ \E pre \in ScriptPres, tag \in ScriptTags, inner \in ScriptInners,
                post \in ScriptPosts :
                LET text == pre \o Fence \o tag \o "\n" \o inner \o Fence \o post
                IN  /\ rawShape = [lead |-> lead, head |-> "SCRIPT:", text |-> text,
                                   trail |-> trail, fenced |-> TRUE, pre |-> pre,
                                   tag |-> tag, inner |-> inner, post |-> post]
                    /\ raw = lead \o "SCRIPT:" \o text \o trail
    /\ parsed = NoResponse
    /\ ppc = "input"

Parse ==
    /\ ppc = "input"
    /\ parsed' = parseAIResponse(raw)
    /\ ppc' = "done"
    /\ UNCHANGED <<raw, rawShape, classifyVars, flowVars, analyzeVars>>

SpecParse == ParseInit /\ [][Parse]_vars

-----------------------------------------------------------------------------
(* Claims about the parser *)

\* C9: a response whose trimmed form is COMMAND: followed by t is a Command
\* with content trim(t) and no error; one that is FAILURE: followed by t is a
\* Failure with reason trim(t) and no content. Only the leading prefix
\* decides, whatever prefix words t itself holds.
C9_PrefixDecides ==
    ppc = "done" =>
        /\ rawShape.head = "COMMAND:" =>
              parsed = [Type |-> ResponseTypeCommand,
                        Content |-> TrimSpace(rawShape.text), Error |-> ""]
        /\ rawShape.head = "FAILURE:" =>
              parsed = [Type |-> ResponseTypeFailure, Content |-> "",
                        Error |-> TrimSpace(rawShape.text)]

\* COMMAND: FAILURE: x, with white space around it, has been parsed as a
\* Command.
C9_Witness ==
    /\ ppc = "done"
    /\ rawShape.head = "COMMAND:"
    /\ rawShape.text = " FAILURE: x"
    /\ rawShape.lead # ""
    /\ rawShape.trail # ""
    /\ parsed.Type = ResponseTypeCommand
    /\ parsed.Content = "FAILURE: x"

\* C10 as claimed: whatever tag follows the opening fence, a SCRIPT: response
\* with a fenced block yields the trimmed interior of the first block, free of
\* fence markers; without a fenced block, the stripped text.
C10_AnyTagFenceStripped ==
    ppc = "done" /\ rawShape.head = "SCRIPT:" =>
        /\ parsed.Type = ResponseTypeScript
        /\ IF rawShape.fenced
           THEN /\ parsed.Content = TrimSpace(rawShape.inner)
                /\ ~Contains(parsed.Content, Fence)
           ELSE parsed.Content = TrimSpace(rawShape.text)

\* C10 as amended: the interior is extracted when the opening fence carries no
\* tag or one of bash, sh, cmd, bat, powershell, ps1, directly followed by a
\* newline. A fence with any other tag is no opening fence: the stripped text
\* is used verbatim, unless a later line of three backticks and a newline has
\* three backticks after it, which then is the first block.
C10_ListedTagFenceStripped ==
    ppc = "done" /\ rawShape.head = "SCRIPT:" =>
        /\ parsed.Type = ResponseTypeScript
        /\ parsed.Error = ""
        /\ CASE ~rawShape.fenced ->
                  parsed.Content = TrimSpace(rawShape.text)
             [] rawShape.fenced /\ rawShape.tag \in fenceTags \cup {""} ->
                  /\ parsed.Content = TrimSpace(rawShape.inner)
                  /\ ~Contains(parsed.Content, Fence)
             [] rawShape.fenced /\ rawShape.tag \notin fenceTags \cup {""}
                  /\ rawShape.post # SecondBlock ->
                  parsed.Content = TrimSpace(rawShape.text)
             [] OTHER ->
                  parsed.Content = ""

\* A block tagged bash, with text before the fence and after it, has been
\* reduced to its interior.
C10_Witness ==
    /\ ppc = "done"
    /\ rawShape.fenced
    /\ rawShape.tag = "bash"
    /\ rawShape.pre # ""
    /\ rawShape.post = "\nDone."
    /\ parsed.Content = "echo hi\nls"

\* The three prefixes, exactly as the parser matches them.
ResponsePrefixes == {"COMMAND:", "SCRIPT:", "FAILURE:"}

\* C11: every text is parsed to exactly one of Command, Script and Failure;
\* a text whose trimmed form starts with none of COMMAND:, SCRIPT:, FAILURE:
\* in exactly this spelling is a Command whose content is the trimmed text,
\* and an empty or white-space-only text is the Command with content "".
C11_TotalWithCommandFallback ==
    ppc = "done" =>
        LET t == TrimSpace(raw)
        IN  /\ parsed.Type \in {ResponseTypeCommand, ResponseTypeScript,
                                ResponseTypeFailure}
            /\ (\A p \in ResponsePrefixes : ~HasPrefix(t, p)) =>
                  parsed = [Type |-> ResponseTypeCommand, Content |-> t, Error |-> ""]
            /\ (\A i \in 1..Len(raw) : At(raw, i) \in WhiteSpace) =>
                  parsed = [Type |-> ResponseTypeCommand, Content |-> "", Error |-> ""]

\* A text that spells the prefix Command: in mixed case, with white space
\* before it, has been parsed as a Command holding the whole trimmed text.
C11_Witness ==
    /\ ppc = "done"
    /\ rawShape.head = "Command:"
    /\ rawShape.lead # ""
    /\ rawShape.text = " ls -la"
    /\ parsed = [Type |-> ResponseTypeCommand, Content |-> "Command: ls -la",
                 Error |-> ""]

-----------------------------------------------------------------------------
(* The retry wrapper on its own: any number of attempts, any first delay. *)

MaxAttempts == 6

MaxDelay == 12

RetryInit ==
    /\ ClassifyIdle
    /\ ParseIdle
    /\ AnalyzeIdle
    /\ pc \in {"generate", "explain"}
    /\ mode = "monarch"
    /\ intent = ""
    /\ fs = {}
    /\ intentErr = ""
    /\ statted = <<>>
    /\ \E n \in 1..MaxAttempts, d \in 0..MaxDelay : retry = StartRetry(n, d)
    /\ response = NoResponse
    /\ taskContent = ""
    /\ isScript = FALSE
    /\ userResponse = ""
    /\ log = <<>>
    /\ execCalls = <<>>
    /\ result = Running

RetryNext ==
    \/ CallProvider
    \/ RetrySleep

SpecRetry == RetryInit /\ [][RetryNext]_vars

-----------------------------------------------------------------------------
(* Claims about the retry wrapper *)

\* The failed calls so far: each is followed by its sleep.
Failures == Cardinality(Calls({"Sleep"}))

Succeeded == retry.out.returned /\ retry.out.err = ""

Exhausted == retry.out.returned /\ retry.out.err # ""

\* C12: with maxAttempts = n, a call that fails k < n times and then succeeds
\* has been invoked k + 1 times when the wrapper returns, and the wrapper
\* returns that response; a call that fails n times has been invoked n times
\* and the wrapper returns an error. The call is never invoked more than n
\* times, and not at all once the wrapper has returned.
C12_InvokedUntilSuccessOrExhausted ==
    LET n == retry.maxRetries
        invoked == Cardinality(ProviderCalls)
    IN  /\ invoked <= n
        /\ Succeeded =>
              /\ Failures < n
              /\ invoked = Failures + 1
              /\ retry.out.resp = retry.resp
              /\ retry.resp \in RawResponses \cup Explanations
        /\ Exhausted =>
              /\ Failures = n
              /\ invoked = n
        /\ retry.out.returned => ~ENABLED RetryNext

\* The third call of four allowed has succeeded after two failures.
C12_Witness ==
    /\ Succeeded
    /\ retry.maxRetries = 4
    /\ Failures = 2
    /\ Cardinality(ProviderCalls) = 3

RECURSIVE Pow2(_)
Pow2(k) == IF k = 0 THEN 1 ELSE 2 * Pow2(k - 1)

C14_ExhaustionErrorNamesCountAndCause ==
    Exhausted =>
        /\ retry.out.resp = ""
        /\ Contains(retry.out.err, ToString(Cardinality(ProviderCalls)))
        /\ retry.err \in ProviderErrors
        /\ Contains(retry.out.err, retry.err)

\* Three attempts of three have failed, the last with a timeout.
C14_Witness ==
    /\ Exhausted
    /\ Cardinality(ProviderCalls) = 3
    /\ retry.out.err = "failed to get response after 3 attempts: timeout"

-----------------------------------------------------------------------------
(* The validator on its own: one intent and one filesystem in, one verdict *)
(* out.                                                                    *)

MaxPaths == 3

\* How an intent opens: with a filesystem keyword (copy, list, the file of
\* profile) or without one.
Openings == {"copy", "LIST Home and", "open my profile", "show"}

\* The words that follow: paths that may exist, paths that never do, one
\* with a backslash, and known directories.
PathWords ==
    {"/nope/a", "~/notes", "~/missing", "/", "a\\b"}

RECURSIVE JoinWords(_)
JoinWords(words) ==
    IF words = <<>> THEN "" ELSE " " \o Head(words) \o JoinWords(Tail(words))

ValidatorIntents ==
    {"", "   ", "\t\n"} \cup
    UNION {{opening \o JoinWords(words) : words \in [1..n -> PathWords]} :
             opening \in Openings, n \in 0..MaxPaths}

\* The root and the home directory exist; the rest may or may not.
ValidatorFileSystems ==
    {{"/", HomeDir} \cup files : files \in {{}, {"/home/u/notes"}}}

ValidateInit ==
    /\ ClassifyIdle
    /\ ParseIdle
    /\ AnalyzeIdle
    /\ pc = "validate"
    /\ mode = "monarch"
    /\ intent \in ValidatorIntents
    /\ fs \in ValidatorFileSystems
    /\ intentErr = ""
    /\ statted = <<>>
    /\ retry = NoRetry
    /\ response = NoResponse
    /\ taskContent = ""
    /\ isScript = FALSE
    /\ userResponse = ""
    /\ log = <<>>
    /\ execCalls = <<>>
    /\ result = Running

SpecValidate == ValidateInit /\ [][Validate]_vars

-----------------------------------------------------------------------------
(* Claims about the validator *)

Validated == pc \in {"newclient", "done"}

FilesystemKeywords ==
    {"move", "copy", "list", "cd", "navigate", "directory", "folder", "file"}

HasKeyword == \E k \in FilesystemKeywords : Contains(ToLower(intent), k)

KnownAliases == {"home", "current", "present", "here", "pwd", "~", ".", "..", "/"}

\* The white-space-delimited tokens of the intent.
Tokens == Fields(intent)

IsPathToken(t) == Contains(t, "/") \/ Contains(t, "\\")

IsAlias(t) == ToLower(t) \in KnownAliases

\* A token with its leading ~ replaced by the home directory.
Expanded(t) == IF HasPrefix(t, "~") THEN HomeDir \o SubSeq(t, 2, Len(t)) ELSE t

\* The positions of the tokens that reference a path that does not exist.
Missing ==
    {i \in 1..Len(Tokens) : IsPathToken(Tokens[i]) /\ Expanded(Tokens[i]) \notin fs}

\* C15: an intent that contains none of the keywords move, copy, list, cd,
\* navigate, directory, folder, file, in any letter case and anywhere in the
\* text, is accepted without any path being tested, whatever else it holds.
C15_NoKeywordNoTest ==
    Validated /\ ~HasKeyword =>
        /\ intentErr = ""
        /\ statted = <<>>
        /\ pc = "newclient"

\* An intent without a keyword that names a path which does not exist has
\* been accepted.
C15_Witness ==
    /\ Validated
    /\ ~HasKeyword
    /\ Missing # {}
    /\ intentErr = ""

\* C16 as claimed: every intent with a token that contains / or \ and names
\* a path that does not exist is rejected with a message that contains such
\* a token.
C16_MissingPathRejected ==
    Validated /\ Missing # {} =>
        /\ intentErr # ""
        /\ \E i \in Missing : Contains(intentErr, Tokens[i])

\* C16 as amended: an intent that contains a filesystem keyword and a token
\* that contains / or \ and names a path that does not exist is rejected
\* with a message that contains that token, the leftmost when there are
\* several.
C16_MissingPathRejectedUnderKeyword ==
    Validated /\ HasKeyword /\ Missing # {} =>
        /\ intentErr # ""
        /\ Contains(intentErr, Tokens[Min(Missing)])
        /\ pc = "done"

\* copy ~/notes /nope/a has been rejected where the notes exist.
C16_Witness ==
    /\ Validated
    /\ intent = "copy ~/notes /nope/a"
    /\ "/home/u/notes" \in fs
    /\ Contains(intentErr, "'/nope/a'")

\* C17: an intent whose tokens with / or \ are all known aliases (home,
\* current, present, here, pwd, ~, ., .., / in any letter case) is accepted
\* whatever the filesystem holds: no path is tested for it.
C17_AliasesAlwaysAccepted ==
    Validated /\ (\A i \in 1..Len(Tokens) : IsPathToken(Tokens[i]) => IsAlias(Tokens[i])) =>
        /\ intentErr = ""
        /\ statted = <<>>
        /\ pc = "newclient"

\* An intent with a keyword whose references are Home and / has been
\* accepted.
C17_Witness ==
    /\ Validated
    /\ intent = "LIST Home and / /"
    /\ intentErr = ""

\* The paths tested for the tokens 1..i: those of the tokens with / or \
\* that are no alias, expanded, in order.
RECURSIVE TestedUpTo(_)
TestedUpTo(i) ==
    IF i = 0 THEN <<>>
    ELSE TestedUpTo(i - 1) \o
         (IF IsPathToken(Tokens[i]) /\ ~IsAlias(Tokens[i])
          THEN <<Expanded(Tokens[i])>> ELSE <<>>)

\* One error names the leftmost token that does not exist and no other, and
\* the paths tested are those of the tokens up to it, each with its leading
\* ~ expanded to the home directory.
LeftmostMissingReported ==
    LET m == Min(Missing)
    IN  /\ intentErr # ""
        /\ Contains(intentErr, "'" \o Tokens[m] \o "'")
        /\ \A j \in Missing : Tokens[j] # Tokens[m] => ~Contains(intentErr, Tokens[j])
        /\ statted = TestedUpTo(m)

\* C18 as claimed: an intent with several path tokens that do not exist gets
\* one error, which names the leftmost of them; no token to its right is
\* tested, and a leading ~ is expanded to the home directory before the
\* test.
C18_LeftmostMissingOnly ==
    Validated /\ Cardinality(Missing) >= 2 => LeftmostMissingReported

\* C18 as amended: the same for an intent that contains a filesystem keyword.
C18_LeftmostMissingOnlyUnderKeyword ==
    Validated /\ HasKeyword /\ Cardinality(Missing) >= 2 => LeftmostMissingReported

\* copy ~/notes ~/missing /nope/a: the first path exists, the error names the
\* second, the third has not been tested.
C18_Witness ==
    /\ Validated
    /\ intent = "copy ~/notes ~/missing /nope/a"
    /\ "/home/u/notes" \in fs
    /\ statted = <<"/home/u/notes", "/home/u/missing">>
    /\ Contains(intentErr, "'~/missing'")

-----------------------------------------------------------------------------
(* The classifier on a chain of two segments, one of them behind a prefix. *)

SegmentPrefixes == {"sudo ", "nohup "}

SegmentInit ==
    /\ ParseIdle
    /\ AnalyzeIdle
    /\ FlowIdle
    /\ \E first \in ChainSegments, second \in ChainSegments,
          sep \in ChainSeparators, p \in SegmentPrefixes, at \in 1..2 :
          /\ cmdShape = [pad |-> "", prefix |-> "", segs |-> <<first, second>>,
                         seps |-> <<sep>>, segPrefix |-> p, at |-> at]
          /\ command = IF at = 1 THEN p \o first \o sep \o second
                                  ELSE first \o sep \o p \o second
    /\ coreSeen = ""
    /\ envErr = NoError
    /\ cpc = "input"

SpecSegment == SegmentInit /\ [][Classify]_vars

\* C20: a chain one of whose segments has sudo or nohup in front gets the
\* category of the chain without that prefix: each segment is stripped of
\* the prefix before its role is decided.
C20_SegmentPrefixStripped ==
    cpc = "done" =>
        envErr.Reason =
            ValidateEnvironmentCommand(JoinChain(cmdShape.segs, cmdShape.seps)).Reason

-----------------------------------------------------------------------------
(* Claims about executeWill: the kinds of failure *)

\* The retry wrapper around the generation call has given up.
GenerationFailed == Exhausted /\ Calls({"ExplainCommand"}) = {}

-----------------------------------------------------------------------------
(* The classifier on variable assignments, alone and in a chain of two. *)

AssignNames ==
    {"JAVA_HOME", "FOO", "_X", "PATH", "java_home", "foo", "path", "classpath", "x1"}

AssignValues == {"bar", "/usr/lib/jvm", "$PATH:/x"}

\* What the assignment is chained with.
AssignNeighbours == {"ls -la", "apt install curl", "cd /tmp"}

\* segs[at] is name=value; a chain has a neighbour before or after it.
AssignInit ==
    /\ ParseIdle
    /\ AnalyzeIdle
    /\ FlowIdle
    /\ \E name \in AssignNames, value \in AssignValues :
          LET assign == name \o "=" \o value
          IN  \/ /\ cmdShape = [pad |-> "", prefix |-> "", segs |-> <<assign>>,
                                 seps |-> <<>>, name |-> name, value |-> value,
                                 at |-> 1]
                 /\ command = assign
              \/ \E other \in AssignNeighbours, sep \in ChainSeparators, at \in 1..2 :
                    LET segs == IF at = 1 THEN <<assign, other>> ELSE <<other, assign>>
                    IN  /\ cmdShape = [pad |-> "", prefix |-> "", segs |-> segs,
                                       seps |-> <<sep>>, name |-> name,
                                       value |-> value, at |-> at]
                        /\ command = JoinChain(segs, <<sep>>)
    /\ coreSeen = ""
    /\ envErr = NoError
    /\ cpc = "input"

SpecAssign == AssignInit /\ [][Classify]_vars

-----------------------------------------------------------------------------
(* Claims about variable assignments *)

LowerChars == {LowerChar(c) : c \in UpperChars}

\* NAME: an upper-case letter or an underscore, then upper-case letters,
\* digits and underscores.
IsUpperName(n) ==
    /\ Len(n) > 0
    /\ At(n, 1) \in UpperChars \cup {"_"}
    /\ \A i \in 2..Len(n) : At(n, i) \in UpperChars \cup DigitChars \cup {"_"}

\* A lower-case identifier: a lower-case letter, then lower-case letters,
\* digits and underscores.
IsLowerName(n) ==
    /\ Len(n) > 0
    /\ At(n, 1) \in LowerChars
    /\ \A i \in 2..Len(n) : At(n, i) \in LowerChars \cup DigitChars \cup {"_"}

\* The segment starts with one of the keywords of an environment command.
StartsWithEnvKeyword(seg) ==
    \E k \in {"export", "source", ".", "cd", "alias", "unalias", "conda",
               "activate", "deactivate", "nvm", "rbenv", "pyenv", "set", "unset",
               "module", "ml"} : seg = k \/ HasPrefix(seg, k \o " ")

\* C21: in a chain, a segment NAME=value with an upper-case name counts as
\* an environment command: when no segment before it does, it is the core
\* command the classifier extracts, whatever the other segments are.
C21_AssignmentSegmentIsCore ==
    /\ cpc = "done"
    /\ Len(cmdShape.segs) = 2
    /\ IsUpperName(cmdShape.name)
    /\ \A i \in 1..(cmdShape.at - 1) : ~StartsWithEnvKeyword(cmdShape.segs[i])
    => coreSeen = ToLower(cmdShape.segs[cmdShape.at])

\* The export detector is the fourth of the priority order.
ExportMatches == 4 \in Matching

SingleAssignment == Len(cmdShape.segs) = 1

\* C22 as claimed: a command that starts with an upper-case NAME= is
\* classified export; a command n=value with a lower-case identifier n,
\* path included, and without PATH= and $PATH in it, is not.
C22_ExportCaseSensitive ==
    cpc = "done" =>
        /\ cmdShape.at = 1 /\ IsUpperName(cmdShape.name) =>
              /\ ExportMatches
              /\ Matching \cap {1, 2, 3} = {} => envErr.Reason = "export"
        /\ /\ SingleAssignment
           /\ IsLowerName(cmdShape.name)
           /\ ~Contains(command, "PATH=")
           /\ ~Contains(command, "$PATH")
           => ~ExportMatches /\ envErr.Reason # "export"

\* C22 as amended: the same, for the lower-case identifiers whose
\* assignment holds none of path=, PATH=, $path and $PATH, which leaves out
\* path and every identifier that ends in path.
C22_ExportCaseSensitiveButPath ==
    cpc = "done" =>
        /\ cmdShape.at = 1 /\ IsUpperName(cmdShape.name) =>
              /\ ExportMatches
              /\ Matching \cap {1, 2, 3} = {} => envErr.Reason = "export"
        /\ /\ SingleAssignment
           /\ IsLowerName(cmdShape.name)
           /\ \A t \in {"path=", "PATH=", "$path", "$PATH"} : ~Contains(command, t)
           => ~ExportMatches /\ envErr.Reason # "export"
        /\ SingleAssignment /\ cmdShape.name = "path" => envErr.Reason = "export"

\* java_home=/usr/lib/jvm has been classified and is safe.
C22_Witness ==
    /\ cpc = "done"
    /\ SingleAssignment
    /\ command = "java_home=/usr/lib/jvm"
    /\ envErr = NoError

-----------------------------------------------------------------------------
(* Claims about executeWill: scripts, executor arguments, explanations *)

\* The calls made since GenerateResponse returned.
SinceResponse ==
    LET g == CHOOSE i \in Calls({"GenerateResponse"}) :
                \A j \in Calls({"GenerateResponse"}) : j <= i
    IN  SubSeq(log, g + 1, Len(log))

\* C23: the classifier is consulted only for Command responses; a Script
\* response goes from the parse to the prompt and then to ExecuteScript, with
\* no call of ValidateEnvironmentCommand in between.
C23_ClassifierOnlyForCommands ==
    /\ Calls({"ValidateEnvironmentCommand"}) # {} => response.Type = ResponseTypeCommand
    /\ Dispatched /\ response.Type = ResponseTypeScript =>
          /\ pc \in {"confirm", "execute", "done"}
          /\ SinceResponse \in {<<>>, <<"Prompt">>, <<"Prompt", "ExecuteScript">>}

\* A script the classifier would have refused as a command was executed.
C23_Witness ==
    /\ pc = "done"
    /\ response.Type = ResponseTypeScript
    /\ ValidateEnvironmentCommand(response.Content) # NoError
    /\ SinceResponse = <<"Prompt", "ExecuteScript">>

\* C25: the executor is called at most once, with the content of the parsed
\* response unmodified and the shell of the system analysis: Execute for a
\* command, ExecuteScript for a script, with showComments true exactly when
\* the mode is royal-heir.
C25_ExecutorGetsParsedContent ==
    /\ Len(execCalls) <= 1
    /\ Len(execCalls) = Cardinality(ExecutorCalls)
    /\ \A i \in 1..Len(execCalls) :
          LET call == execCalls[i]
          IN  /\ call.content = response.Content
              /\ Calls({"ExplainCommand"}) = {} =>
                     call.content = parseAIResponse(retry.out.resp).Content
              /\ call.shell = Shell
              /\ call.script = (response.Type = ResponseTypeScript)
              /\ log[Len(log)] = IF call.script THEN "ExecuteScript" ELSE "Execute"
              /\ call.script => (call.showComments <=> mode = "royal-heir")

\* A fenced script was executed in royal-heir mode, its comments shown.
C25_Witness ==
    /\ Len(execCalls) = 1
    /\ execCalls[1].script
    /\ execCalls[1].showComments
    /\ execCalls[1].content # ""
    /\ Contains(retry.out.resp, Fence)

\* ExplainCommand was called and has returned.
ExplainReturned ==
    /\ Calls({"ExplainCommand"}) # {}
    /\ pc \notin {"explain", "explain sleep"}

\* The provider calls named are the attempts of one call of the wrapper: each
\* but the last is followed by the sleep, and nothing else lies between them.
OneRetryLoop(name) ==
    \A i \in Calls({name}) :
        (\E j \in Calls({name}) : i < j) =>
            /\ log[i + 1] = "Sleep"
            /\ log[i + 2] = name

\* C28: ExplainCommand is called only in royal-heir mode for a Command
\* response, at most once in a run; when it has returned, with an explanation
\* or with the error of its last attempt, the run goes on the same way: the
\* classifier is consulted, then the prompt is shown unless the command was
\* refused, then the executor is called exactly if the answer confirmed.
C28_ExplanationNeverFatal ==
    /\ Calls({"ExplainCommand"}) # {} =>
          /\ mode = "royal-heir"
          /\ response.Type = ResponseTypeCommand
          /\ OneRetryLoop("ExplainCommand")
          /\ Cardinality(Calls({"ExplainCommand"})) <= maxExplainRetries
    /\ ExplainReturned =>
          /\ pc = "envcheck" <=> Calls({"ValidateEnvironmentCommand"}) = {}
          /\ pc = "done" =>
                IF ValidateEnvironmentCommand(response.Content) # NoError
                THEN /\ result = Return("nil", "environment command")
                     /\ Calls({"Prompt"}) = {}
                ELSE /\ Calls({"Prompt"}) # {}
                     /\ confirmed(userResponse) <=> Len(execCalls) = 1
                     /\ result.why \in {"failed to read your royal decree", "quest declined",
                                        "quest difficulties", "quest completed"}

\* The explanation failed on each of its attempts and the command was
\* executed all the same.
C28_Witness ==
    /\ Exhausted
    /\ Cardinality(Calls({"ExplainCommand"})) = maxExplainRetries
    /\ Len(execCalls) = 1
    /\ result = Return("nil", "quest completed")

\* The call at position i of the log returned a response: the wrapper did not
\* go on to sleep.
Successful(i) ==
    IF i = Len(log) THEN pc \notin {"generate sleep", "explain sleep"}
                    ELSE log[i + 1] # "Sleep"

\* C29: a run makes at most 5 provider calls for GenerateResponse and at most
\* 3 for ExplainCommand, also when every call fails, and no provider call
\* follows a successful one in the same retry loop; the wrapper is not about
\* to call once the bound is reached.
C29_BoundedProviderCalls ==
    /\ Cardinality(Calls({"GenerateResponse"})) <= 5
    /\ Cardinality(Calls({"ExplainCommand"})) <= 3
    /\ pc = "generate" => Cardinality(Calls({"GenerateResponse"})) < 5
    /\ pc = "explain" => Cardinality(Calls({"ExplainCommand"})) < 3
    /\ \A name \in {"GenerateResponse", "ExplainCommand"} :
          \A i \in Calls({name}) :
              Successful(i) => \A j \in Calls({name}) : j <= i

\* The provider failed four times, answered the fifth generation call with a
\* command, and failed each of the three explanation calls.
C29_Witness ==
    /\ Cardinality(Calls({"GenerateResponse"})) = 5
    /\ Cardinality(Calls({"ExplainCommand"})) = 3
    /\ Cardinality(Calls({"Sleep"})) = 7
    /\ pc = "envcheck"

-----------------------------------------------------------------------------
(* Claims about exponentialRetryForAiResponse: the sleeps *)

\* C24: the wrapper sleeps only between attempts: when it gives up after n
\* failed attempts it has slept n - 1 times, and no sleep follows the last
\* failed attempt before the error is returned.
C24_SleepsOnlyBetweenAttempts ==
    Exhausted =>
        /\ Len(retry.slept) = retry.maxRetries - 1
        /\ log[Len(log)] # "Sleep"

-----------------------------------------------------------------------------
(* Claims about ValidateEnvironmentCommand: no segment hides *)

\* C26: for every chain, if one of its segments gets a category when passed
\* alone, the whole chain gets a category.
C26_SegmentCategoryCarries ==
    cpc = "done" /\ Len(cmdShape.segs) >= 2
                /\ (\E i \in 1..Len(cmdShape.segs) :
                       ValidateEnvironmentCommand(cmdShape.segs[i]) # NoError)
        => envErr # NoError

\* C27: every command whose core command is "source " or ". " followed by a
\* non-empty argument gets a category, whatever the file sourced is called.
C27_SourceAlwaysBlocked ==
    cpc = "done" /\ (\E pattern \in {"source ", ". "} :
                       /\ HasPrefix(coreSeen, pattern)
                       /\ TrimSpace(TrimPrefix(coreSeen, pattern)) # "")
        => envErr # NoError

-----------------------------------------------------------------------------
(* Analyzer.AnalyzeSystem: internal/system/analyzer_unix.go *)

GOOS == "linux"

CurrentDir == "/home/u/work"

\* filepath.Base of a path without trailing slash: what follows the last /.
Base(path) ==
    IF path = "" THEN "."
    ELSE LET slashes == Occurrences(path, "/")
         IN  IF slashes = {} THEN path ELSE SubSeq(path, Max(slashes) + 1, Len(path))

\* strings.Trim(s, cutset)
Trim(s, cutset) ==
    LET keep == {i \in 1..Len(s) : At(s, i) \notin cutset}
    IN  IF keep = {} THEN "" ELSE SubSeq(s, Min(keep), Max(keep))

\* os.ReadDir: the entries of the directories that can be read, none of them
\* a directory; reading any other directory fails.
DirEntries(dir) ==
    CASE dir = "/usr/bin" -> {"ls", "apt"}
      [] dir = "/opt/bin" -> {"brew", "tool"}
      [] OTHER -> {}

\* exec.LookPath: the file is in a directory of PATH.
LookPath(file, pathEnv) ==
    \E k \in 1..Len(Split(pathEnv, ":")) : file \in DirEntries(Split(pathEnv, ":")[k])

managers == <<"apt", "yum", "dnf", "pacman", "brew", "zypper">>

rcFiles == <<Join(HomeDir, ".bashrc"), Join(HomeDir, ".zshrc"), Join(HomeDir, ".bash_aliases")>>

\* parseAliasFile: the aliases after the lines of one file.
RECURSIVE parseAliasLines(_, _)
parseAliasLines(lines, aliases) ==
    IF lines = <<>> THEN aliases
    ELSE LET line == TrimSpace(Head(lines))
             aliasLine == TrimPrefix(line, "alias ")
             eq == Index(aliasLine, "=")
         IN  IF HasPrefix(line, "alias ") /\ eq # 0
             THEN parseAliasLines(Tail(lines),
                     (TrimSpace(SubSeq(aliasLine, 1, eq - 1)) :>
                         Trim(TrimSpace(SubSeq(aliasLine, eq + 1, Len(aliasLine))),
                              {"'", "\""}))
                     @@ aliases)
             ELSE parseAliasLines(Tail(lines), aliases)

\* parseAliases: the rc files in order; a file that cannot be opened is
\* skipped. files maps the names of the files that exist to their lines.
RECURSIVE parseAliasFiles(_, _, _)
parseAliasFiles(names, files, aliases) ==
    IF names = <<>> THEN aliases
    ELSE parseAliasFiles(Tail(names), files,
                         IF Head(names) \in DOMAIN files
                         THEN parseAliasLines(files[Head(names)], aliases)
                         ELSE aliases)

\* The files of the directories of a slice that can be read.
commandSet(pathDirectories) ==
    UNION {DirEntries(pathDirectories[k]) : k \in 1..Len(pathDirectories)}

\* The five goroutines, by the method each runs.
Probes ==
    {"detectShell", "detectPackageManager", "getPathDirectories", "getAvailableCommands",
     "parseAliases"}

ShellValues == {"", "/bin/zsh", "/usr/local/bin/fish"}

PathValues == {"", "/usr/bin", "/opt/bin:/usr/bin", "/nowhere:/opt/bin"}

RcValues ==
    {<<>>,
     (Join(HomeDir, ".bashrc") :> <<"alias ll='ls -la'", "export EDITOR=vi",
                                   "  alias gs=\"git status\"", "alias broken">>),
     (Join(HomeDir, ".bashrc") :> <<"alias ll='ls -l'">>)
        @@ (Join(HomeDir, ".bash_aliases") :> <<"alias ll='ls -la'">>)}

AnalyzeInit ==
    /\ ClassifyIdle
    /\ ParseIdle
    /\ FlowIdle
    /\ info = NoInfo
    /\ environ \in [SHELL : ShellValues, PATH : PathValues, rc : RcValues]
    /\ tasks = <<>>
    /\ dirs = <<>>
    /\ apc = "start"

\* Lines 39-76: the fields set before the goroutines start, and their start.
Launch ==
    /\ apc = "start"
    /\ info' = [info EXCEPT !.OS = GOOS, !.CurrentDir = CurrentDir, !.HomeDir = HomeDir]
    /\ tasks' = [t \in Probes |-> "ready"]
    /\ apc' = "wait"
    /\ UNCHANGED <<environ, dirs, classifyVars, parseVars, flowVars>>

detectShell ==
    /\ apc = "wait"
    /\ tasks["detectShell"] = "ready"
    /\ info' = [info EXCEPT !.Shell = IF environ.SHELL = "" THEN "bash"
                                      ELSE Base(environ.SHELL)]
    /\ tasks' = [tasks EXCEPT !["detectShell"] = "done"]
    /\ UNCHANGED <<environ, dirs, apc, classifyVars, parseVars, flowVars>>

detectPackageManager ==
    /\ apc = "wait"
    /\ tasks["detectPackageManager"] = "ready"
    /\ LET found == {k \in 1..Len(managers) : LookPath(managers[k], environ.PATH)}
       IN  info' = [info EXCEPT !.PackageManager = IF found = {} THEN "unknown"
                                                   ELSE managers[Min(found)]]
    /\ tasks' = [tasks EXCEPT !["detectPackageManager"] = "done"]
    /\ UNCHANGED <<environ, dirs, apc, classifyVars, parseVars, flowVars>>

\* getPathDirectories up to the assignment: the return for an empty PATH, else
\* the split; the words of the slice header are about to be stored.
getPathDirectories ==
    /\ apc = "wait"
    /\ tasks["getPathDirectories"] = "ready"
    /\ tasks' = [tasks EXCEPT !["getPathDirectories"] =
                    IF environ.PATH = "" THEN "done" ELSE "storing"]
    /\ UNCHANGED <<info, environ, dirs, apc, classifyVars, parseVars, flowVars>>

\* The assignment to info.PathDirectories completed.
storePathDirectories ==
    /\ apc = "wait"
    /\ tasks["getPathDirectories"] = "storing"
    /\ info' = [info EXCEPT !.PathDirectories = Split(environ.PATH, ":")]
    /\ tasks' = [tasks EXCEPT !["getPathDirectories"] = "done"]
    /\ UNCHANGED <<environ, dirs, apc, classifyVars, parseVars, flowVars>>

\* getAvailableCommands: the range statement reads info.PathDirectories, once,
\* with no synchronisation with the goroutine that assigns it. While the
\* assignment is under way the read is a data race: it yields the old header,
\* the new one, or a header with the new length and the old nil pointer, on
\* whose first element the loop panics.
rangePathDirectories ==
    /\ apc = "wait"
    /\ tasks["getAvailableCommands"] = "ready"
    /\ IF tasks["getPathDirectories"] = "storing"
       THEN \/ /\ dirs' \in {info.PathDirectories, Split(environ.PATH, ":")}
               /\ tasks' = [tasks EXCEPT !["getAvailableCommands"] = "ranging"]
               /\ apc' = apc
            \/ /\ apc' = "panic"
               /\ UNCHANGED <<dirs, tasks>>
       ELSE /\ dirs' = info.PathDirectories
            /\ tasks' = [tasks EXCEPT !["getAvailableCommands"] = "ranging"]
            /\ apc' = apc
    /\ UNCHANGED <<info, environ, classifyVars, parseVars, flowVars>>

\* getAvailableCommands: the loops over the directories and over the set; the
\* order in which the map is ranged over is left out, the commands are a set.
getAvailableCommands ==
    /\ apc = "wait"
    /\ tasks["getAvailableCommands"] = "ranging"
    /\ info' = [info EXCEPT !.AvailableCommands = @ \cup commandSet(dirs)]
    /\ tasks' = [tasks EXCEPT !["getAvailableCommands"] = "done"]
    /\ UNCHANGED <<environ, dirs, apc, classifyVars, parseVars, flowVars>>

parseAliases ==
    /\ apc = "wait"
    /\ tasks["parseAliases"] = "ready"
    /\ info' = [info EXCEPT !.Aliases = parseAliasFiles(rcFiles, environ.rc, @)]
    /\ tasks' = [tasks EXCEPT !["parseAliases"] = "done"]
    /\ UNCHANGED <<environ, dirs, apc, classifyVars, parseVars, flowVars>>

\* wg.Wait() and the return: no probe returns an error, errors stays empty.
Wait ==
    /\ apc = "wait"
    /\ \A t \in Probes : tasks[t] = "done"
    /\ apc' = "done"
    /\ UNCHANGED <<info, environ, tasks, dirs, classifyVars, parseVars, flowVars>>

AnalyzeNext ==
    \/ Launch
    \/ detectShell
    \/ detectPackageManager
    \/ getPathDirectories
    \/ storePathDirectories
    \/ rangePathDirectories
    \/ getAvailableCommands
    \/ parseAliases
    \/ Wait

SpecAnalyze == AnalyzeInit /\ [][AnalyzeNext]_vars

-----------------------------------------------------------------------------
(* Claims about AnalyzeSystem *)

\* C30: the probes that run in parallel are independent, so the Info
\* AnalyzeSystem returns is the same under every interleaving: the run does
\* not panic, and the available commands are those of the directories in
\* info.PathDirectories.
C30_ProbesIndependent ==
    /\ apc # "panic"
    /\ apc = "done" => info.AvailableCommands = commandSet(info.PathDirectories)

====
